---- MODULE Spec2Model ----
(***************************************************************************)
(* Model of Investment-Prediction.py: the scoring functions                *)
(* (calculate_fundamental_score, aggregate_sentiment, combine_scores,      *)
(* investment_label) and the watchlist handlers (fetch_stock_info,         *)
(* update_tree, on_row_double_click) over the module-level list stock_data.*)
(*                                                                         *)
(* Numbers.  Python floats are modelled in fixed point:                    *)
(*   - scores (fundamentals, sentiment, overall) in hundredths, the        *)
(*     resolution round(x, 2) leaves them with;                            *)
(*   - the five sub-scores, trend and volatility in thousandths;           *)
(*   - VADER compound values in ten-thousandths (VADER rounds to 4 places);*)
(*   - trailing P/E in units, market cap in 1e9 dollars, dividend yield in *)
(*     thousandths, prices and closes in dollars.                          *)
(* round(x, 2) is modelled on the exact rational: to the nearest hundredth,*)
(* and to either neighbour when x lies exactly half way, because the       *)
(* binary float that stands for such an x may lie on either side.          *)
(***************************************************************************)
EXTENDS Integers, Sequences, FiniteSets, TLC

VARIABLES
    stock_data,     \* the module-level list of stock records (line 21)
    invalid_label,  \* text of the message label (lines 398-399)
    tree,           \* rows of the Treeview, top to bottom (lines 405-409)
    last,           \* what the last handler did: outcome, resolved symbol, calls made, popup shown
    arg,            \* argument of the scoring function under evaluation
    ret             \* its return value

vars == <<stock_data, invalid_label, tree, last, arg, ret>>

\* ------------------------------------------------------------ bounds
MaxHist == 3        \* longest closing-price history
MaxClose == 3       \* highest closing price
MaxArticles == 3    \* longest article list passed to aggregate_sentiment
Window == 6         \* width of the score windows combine_scores is evaluated on
MaxStocks == 2      \* records the watchlist holds before further adds are left out

\* ------------------------------------------------------------ values
\* A value of the yfinance info dict: a number, None, the string "N/A",
\* some other non-numeric string, or the key being absent.
Num(n) == [k |-> "num", v |-> n]
None == [k |-> "none", v |-> 0]
NA == [k |-> "na", v |-> 0]
Text == [k |-> "str", v |-> 0]
Absent == [k |-> "absent", v |-> 0]

\* dict.get(key, default)
Get(info, key, default) == IF info[key].k = "absent" THEN default ELSE info[key]

\* Python truthiness of an info value
Truthy(x) == CASE x.k = "num" -> x.v # 0
               [] x.k = "none" -> FALSE
               [] OTHER -> TRUE

\* min(a, b) and max(a, b) as Python evaluates them on numbers
PyMin(a, b) == IF b < a THEN b ELSE a
PyMax(a, b) == IF b > a THEN b ELSE a

\* round(num/den, 2) in hundredths, num/den being the value in hundredths:
\* the set of results the float computation can give.
Round2(num, den) ==
    LET q == num \div den
        r == num % den
    IN  IF 2 * r < den THEN {q}
        ELSE IF 2 * r > den THEN {q + 1}
        ELSE {q, q + 1}

RECURSIVE SumSeq(_)
SumSeq(s) == IF s = <<>> THEN 0 ELSE Head(s) + SumSeq(Tail(s))

RECURSIVE SumSquares(_)
SumSquares(s) == IF s = <<>> THEN 0 ELSE Head(s) * Head(s) + SumSquares(Tail(s))

\* floor of the square root, by bisection on lo..hi
RECURSIVE SqrtIn(_, _, _)
SqrtIn(x, lo, hi) ==
    IF lo = hi THEN lo
    ELSE LET mid == (lo + hi + 1) \div 2
         IN  IF mid * mid <= x THEN SqrtIn(x, mid, hi) ELSE SqrtIn(x, lo, mid - 1)

ISqrt(x) == SqrtIn(x, 0, 46340)

\* ------------------------------------------------------------ calculate_fundamental_score
weights == [pe |-> 30, market_cap |-> 20, div_yield |-> 15, trend |-> 25, volatility |-> 10]

\* trend, in thousandths (line 79), of a non-empty history of positive closes;
\* the lookups and the division do not raise on one, so the except branches of
\* lines 80-81 and 84-85 are not taken
Trend(hist) == ((hist[Len(hist)] - hist[1]) * 1000) \div hist[1]

\* np.std(closes) / np.mean(closes), in thousandths (line 83):
\* sqrt(n * sum(x^2) - sum(x)^2) / sum(x)
Volatility(hist) ==
    LET s == SumSeq(hist)
        d == Len(hist) * SumSquares(hist) - s * s
    IN  ISqrt(d * 1000000) \div s

\* line 86
PeScore(pe) == IF Truthy(pe) /\ pe.v > 0 THEN 1000 - (PyMin(pe.v, 100) * 1000) \div 100 ELSE 500
\* line 87
McScore(market_cap) ==
    IF Truthy(market_cap) /\ market_cap.v > 0 THEN PyMin((market_cap.v * 1000) \div 500, 1000) ELSE 0
\* line 88; div_yield in thousandths, so div_yield / 0.1 in thousandths is 10 * div_yield
DyScore(div_yield) == PyMin(div_yield * 10, 1000)
\* line 89
TrendScore(trend) == (PyMin(PyMax(trend, 0), 500) * 1000) \div 500
\* line 90
VolScore(volatility) == 1000 - (PyMin(volatility, 500) * 1000) \div 500

\* The five sub-scores of one call, in thousandths (lines 70-90).
SubScores(info, hist) ==
    LET pe == Get(info, "trailingPE", None)
        market_cap == Get(info, "marketCap", None)
        dy == Get(info, "dividendYield", Num(0))
        div_yield == IF Truthy(dy) THEN dy.v ELSE 0
    IN  [pe |-> PeScore(pe),
         market_cap |-> McScore(market_cap),
         div_yield |-> DyScore(div_yield),
         trend |-> TrendScore(Trend(hist)),
         volatility |-> VolScore(Volatility(hist))]

\* A comparison or division of a string with a number raises TypeError
\* (lines 86-88): a truthy non-number among P/E, market cap, dividend yield.
FundamentalRaises(info, hist) ==
    /\ hist # <<>>
    /\ \/ Get(info, "trailingPE", None).k \in {"na", "str"}
       \/ Get(info, "marketCap", None).k \in {"na", "str"}
       \/ Get(info, "dividendYield", Num(0)).k \in {"na", "str"}

\* calculate_fundamental_score(stock): the set of results, in hundredths, of a
\* call that does not raise.
calculate_fundamental_score(info, hist) ==
    IF hist = <<>> THEN {500}
    ELSE LET s == SubScores(info, hist)
             total == s.pe * weights.pe + s.market_cap * weights.market_cap
                      + s.div_yield * weights.div_yield + s.trend * weights.trend
                      + s.volatility * weights.volatility
         IN  Round2(total, 100)

\* ------------------------------------------------------------ aggregate_sentiment
\* An article is modelled by the compound value, in ten-thousandths, that
\* SentimentIntensityAnalyzer gives its "title. description" text (lines 126-130).
\* A news value is a list of articles or None.
News(items) == [k |-> "list", items |-> items]
NoNews == [k |-> "none", items |-> <<>>]

\* "a or b" on two news values (line 267)
NewsOr(a, b) == IF a.k = "none" \/ a.items = <<>> THEN b ELSE a

\* avg_score >= 0.05 (line 139) on avg_score = sum / n; as a bug: a strict comparison
SlightlyPositiveStrict(sum, n) == sum > 500 * n
SlightlyPositive(sum, n) == sum >= 500 * n

\* the label chain of lines 133-150

SentimentLabel(sum, n) ==
    IF sum >= 7500 * n THEN "Extremely Positive"
    ELSE IF sum >= 5000 * n THEN "Very Positive"
    ELSE IF sum >= 2500 * n THEN "Positive"
    ELSE IF SlightlyPositive(sum, n) THEN "Slightly Positive"
    ELSE IF sum > -500 * n THEN "Neutral"
    ELSE IF sum > -2500 * n THEN "Slightly Negative"
    ELSE IF sum > -5000 * n THEN "Negative"
    ELSE IF sum > -7500 * n THEN "Very Negative"
    ELSE "Extremely Negative"

\* the result of "if not articles" (lines 121-122); as a bug: the low end
\* of the scale instead of its middle
EmptyNewsZero == <<"Neutral", 0>>
EmptyNewsResult == <<"Neutral", 500>>

\* aggregate_sentiment(articles): the set of results <<label, score>>, the
\* score in hundredths: (avg + 1) * 5 = (sum + 10000 n) / (2000 n)
aggregate_sentiment(articles) ==
    IF articles.k = "none" \/ articles.items = <<>> THEN {EmptyNewsResult}
    ELSE LET n == Len(articles.items)
             sum == SumSeq(articles.items)
         IN  {<<SentimentLabel(sum, n), sc>> : sc \in Round2(sum + 10000 * n, 20 * n)}

\* ------------------------------------------------------------ combine_scores
\* round(f * 0.6 + s * 0.4, 2), f and s in hundredths (line 154); as a bug:
\* the sentiment share subtracted
CombineDifference(fundamental_score, sentiment_score) ==
    Round2(6 * fundamental_score - 4 * sentiment_score, 10)
combine_scores(fundamental_score, sentiment_score) ==
    Round2(6 * fundamental_score + 4 * sentiment_score, 10)

\* investment_label(overall), overall in hundredths (lines 156-164)
investment_label(overall) ==
    IF overall >= 800 THEN "Excellent Investment"
    ELSE IF overall >= 600 THEN "Good Investment"
    ELSE IF overall >= 400 THEN "Neutral"
    ELSE "Weak Investment"

\* ------------------------------------------------------------ watchlist
\* A string value of the info dict with its text and the words split() gives.
Str(s, words) == [k |-> "str", s |-> s, words |-> words]

\* symbol_input.strip() on a query given as a sequence of characters (line 237)
RECURSIVE LStrip(_)
LStrip(q) == IF q # <<>> /\ Head(q) = " " THEN LStrip(Tail(q)) ELSE q

RECURSIVE RStrip(_)
RStrip(q) == IF q # <<>> /\ q[Len(q)] = " " THEN RStrip(SubSeq(q, 1, Len(q) - 1)) ELSE q

Strip(q) == RStrip(LStrip(q))

\* the loop of lines 244-247; as bugs: no check at all, and a check of the
\* newest record alone
NeverDuplicate(data, symbol) == FALSE
IsNewestRecord(data, symbol) == data # <<>> /\ data[Len(data)].symbol = symbol
IsDuplicate(data, symbol) == \E i \in 1..Len(data) : data[i].symbol = symbol

\* line 257; as a bug: the price alone is looked at
IncompletePriceOnly(price, market_cap, pe_ratio) == price.k \in {"na", "none"}
Incomplete(price, market_cap, pe_ratio) ==
    \E x \in {price, market_cap, pe_ratio} : x.k \in {"na", "none"}

\* float(x) raises on a non-numeric string (lines 274-276)
FloatRaises(x) == x.k # "num"

\* sorted(data, key=overall, reverse=True): stable, descending (line 293).
\* Each record goes behind every record already placed whose key is not smaller.
RECURSIVE InsertRanked(_, _)
InsertRanked(ranked, rec) ==
    IF ranked = <<>> THEN <<rec>>
    ELSE IF Head(ranked).overall >= rec.overall
         THEN <<Head(ranked)>> \o InsertRanked(Tail(ranked), rec)
         ELSE <<rec>> \o ranked

RECURSIVE InsertAscending(_, _)
InsertAscending(ranked, rec) ==
    IF ranked = <<>> THEN <<rec>>
    ELSE IF Head(ranked).overall <= rec.overall
         THEN <<Head(ranked)>> \o InsertAscending(Tail(ranked), rec)
         ELSE <<rec>> \o ranked

RECURSIVE RankFrom(_, _)
RankFrom(ranked, data) ==
    IF data = <<>> THEN ranked ELSE RankFrom(InsertRanked(ranked, Head(data)), Tail(data))

RECURSIVE RankAscendingFrom(_, _)
RankAscendingFrom(ranked, data) ==
    IF data = <<>> THEN ranked
    ELSE RankAscendingFrom(InsertAscending(ranked, Head(data)), Tail(data))

\* as a bug: sorted(data, key=...)[::-1], which turns the tied records round
AscendingReversed(data) ==
    LET up == RankAscendingFrom(<<>>, data)
    IN  [i \in 1..Len(up) |-> up[Len(up) + 1 - i]]
Sorted(data) == RankFrom(<<>>, data)

\* the row tree.insert displays for a record (lines 295-305); the overall
\* score is shown with two decimals, the resolution it is stored with
Row(s) == [symbol |-> s.symbol, company |-> s.company, overall |-> s.overall]

\* update_tree() run on store contents data (lines 290-305): the rows are
\* replaced by the ranked records; the store is read, not written.
\* As a bug: stock_data.sort(...), which ranks the store itself.
update_tree_in_place(data) ==
    /\ tree' = [i \in 1..Len(data) |-> Row(Sorted(data)[i])]
    /\ stock_data' = Sorted(data)
update_tree(data) ==
    /\ tree' = [i \in 1..Len(data) |-> Row(Sorted(data)[i])]
    /\ stock_data' = data

\* stock_data.append({...}) (lines 271-284)
AppendRecord(data, rec) == Append(data, rec)

\* What a handler did, kept in last: the outcome, the resolved symbol, the
\* statement that raised, the functions called, the required quote fields that
\* were missing, the articles scored, the popup shown.
NoPopup == [symbol |-> "", recommendation |-> ""]
Unfetched == [k |-> "unfetched", items |-> <<>>]
Required == {"regularMarketPrice", "marketCap", "trailingPE"}
Missing(info) == {key \in Required : info[key].k \in {"absent", "none", "na"}}

Did(outcome, symbol, stage, calls, missing, articles) ==
    [outcome |-> outcome, symbol |-> symbol, stage |-> stage, calls |-> calls,
     missing |-> missing, articles |-> articles, popup |-> NoPopup]

\* ------------------------------------------------------------ inputs
NoSymbol == ""      \* search_ticker_by_name found nothing (None)
SymbolPool == {"AAPL", "aapl", "MSFT"}
Queries == {<<>>, <<" ">>, <<" ", "a", " ">>}

Complete ==
    [shortName |-> Str("Apple Inc.", <<"Apple", "Inc.">>),
     regularMarketPrice |-> Num(100), marketCap |-> Num(250), trailingPE |-> Num(15),
     fiftyTwoWeekHigh |-> Num(120), fiftyTwoWeekLow |-> Num(80), dividendYield |-> Num(20)]

Infos ==
    {[Complete EXCEPT ![key] = x] : key \in Required, x \in {Absent, None, NA}}
    \cup
    {Complete,
     [Complete EXCEPT !.regularMarketPrice = Text],
     [Complete EXCEPT !.trailingPE = Text],
     [Complete EXCEPT !.shortName = Str("  ", <<>>)]}

Rising == <<2, 3>>
Histories == {<<>>, Rising}
NewsValues == {NoNews, News(<<>>), News(<<6000>>)}

\* ------------------------------------------------------------ handlers
\* The record of lines 271-284.
StockRecord(symbol, info, fundamentals, sentiment, overall, articles) ==
    [symbol |-> symbol,
     company |-> Get(info, "shortName", Str(symbol, <<symbol>>)),
     price |-> info.regularMarketPrice.v,
     market_cap |-> info.marketCap.v,
     pe_ratio |-> info.trailingPE.v,
     high_52w |-> Get(info, "fiftyTwoWeekHigh", NA),
     low_52w |-> Get(info, "fiftyTwoWeekLow", NA),
     overall |-> overall,
     fundamentals |-> fundamentals,
     sentiment_score |-> sentiment[2],
     sentiment_label |-> sentiment[1],
     articles |-> articles]

Scoring == {"calculate_fundamental_score"}
Blending == Scoring \cup {"get_news", "aggregate_sentiment", "combine_scores"}

\* The handler left without touching the store or the tree.
Leave(message, did) ==
    /\ invalid_label' = message
    /\ last' = did
    /\ UNCHANGED <<stock_data, tree, arg, ret>>

\* fetch_stock_info(symbol_input), lines 236-288.  The search result, the
\* quote, the price history and the news are what the services return.
fetch_stock_info(query) ==
    IF Strip(query) = <<>>
    THEN Leave(invalid_label, Did("noquery", NoSymbol, "", {}, {}, Unfetched))
    ELSE \E symbol \in SymbolPool \cup {NoSymbol} :
      IF symbol = NoSymbol
      THEN Leave("No stock found", Did("notfound", NoSymbol, "", {}, {}, Unfetched))
      ELSE IF IsDuplicate(stock_data, symbol)
      THEN Leave("Stock already in list", Did("duplicate", symbol, "", {}, {}, Unfetched))
      ELSE \E ticker_raises \in BOOLEAN :
        IF ticker_raises
        THEN Leave("Failed to fetch stock info", Did("failed", symbol, "ticker", {}, {}, Unfetched))
        ELSE \E info \in Infos :
          LET company_name == Get(info, "shortName", Str(symbol, <<symbol>>))
              price == Get(info, "regularMarketPrice", NA)
              market_cap == Get(info, "marketCap", NA)
              pe_ratio == Get(info, "trailingPE", NA)
          IN
          IF Incomplete(price, market_cap, pe_ratio)
          THEN Leave("Incomplete stock data", Did("incomplete", symbol, "", {}, Missing(info), Unfetched))
          ELSE \E hist \in Histories :
            IF FundamentalRaises(info, hist)
            THEN Leave("Failed to fetch stock info",
                       Did("failed", symbol, "fundamentals", Scoring, Missing(info), Unfetched))
            ELSE IF company_name.s # "" /\ company_name.words = <<>>
            THEN Leave("Failed to fetch stock info",
                       Did("failed", symbol, "search_query", Scoring, Missing(info), Unfetched))
            ELSE \E first_news \in NewsValues :
              \E articles \in {NewsOr(first_news, second_news) : second_news \in NewsValues} :
              \E fundamentals \in calculate_fundamental_score(info, hist),
                 sentiment \in aggregate_sentiment(articles) :
              \E overall \in combine_scores(fundamentals, sentiment[2]) :
                IF FloatRaises(price) \/ FloatRaises(market_cap) \/ FloatRaises(pe_ratio)
                THEN Leave("Failed to fetch stock info",
                           Did("failed", symbol, "float", Blending, Missing(info), articles))
                ELSE /\ Len(stock_data) < MaxStocks
                     /\ update_tree(AppendRecord(stock_data,
                            StockRecord(symbol, info, fundamentals, sentiment, overall, articles)))
                     /\ invalid_label' = ""
                     /\ last' = Did("added", symbol, "", Blending \cup {"update_tree"},
                                  Missing(info), articles)
                     /\ UNCHANGED <<arg, ret>>

\* next((s for s in stock_data if s["symbol"] == symbol), None), line 313
FirstEntry(data, symbol) ==
    IF \E i \in 1..Len(data) : data[i].symbol = symbol
    THEN LET i == CHOOSE j \in 1..Len(data) :
                    /\ data[j].symbol = symbol
                    /\ \A h \in 1..(j - 1) : data[h].symbol # symbol
         IN  <<data[i]>>
    ELSE <<>>

\* on_row_double_click(event), lines 307-371; selected: the selected row, 0 for none
on_row_double_click(selected) ==
    /\ UNCHANGED <<stock_data, tree, invalid_label, arg, ret>>
    /\ IF selected = 0
       THEN last' = Did("noselection", NoSymbol, "", {}, {}, Unfetched)
       ELSE LET symbol == tree[selected].symbol
                stock_entry == FirstEntry(stock_data, symbol)
            IN  IF stock_entry = <<>>
                THEN last' = Did("noentry", symbol, "", {}, {}, Unfetched)
                ELSE last' = [Did("popup", symbol, "", {"investment_label"}, {}, Unfetched) EXCEPT
                                !.popup = [symbol |-> symbol,
                                           recommendation |->
                                               investment_label(stock_entry[1].overall)]]

FetchStockInfo == \E query \in Queries : fetch_stock_info(query)
OnRowDoubleClick == \E selected \in 0..Len(tree) : on_row_double_click(selected)

Idle == [k |-> "none"]

\* the state main() starts the event loop in: an empty list, label and tree
Started ==
    /\ stock_data = <<>>
    /\ invalid_label = ""
    /\ tree = <<>>
    /\ last = Did("start", NoSymbol, "", {}, {}, Unfetched)

Init ==
    /\ Started
    /\ arg = Idle
    /\ ret = Idle

Next == FetchStockInfo \/ OnRowDoubleClick

Spec == Init /\ [][Next]_vars

\* ------------------------------------------------------------ the scoring functions alone
RECURSIVE SeqsUpTo(_, _)
SeqsUpTo(S, n) ==
    IF n = 0 THEN {<<>>}
    ELSE LET shorter == SeqsUpTo(S, n - 1)
         IN  shorter \cup {Append(q, x) : q \in {t \in shorter : Len(t) = n - 1}, x \in S}

\* calculate_fundamental_score on every quote and history within the bounds
PeValues == {Absent, None, Num(-5), Num(0), Num(15), Num(100), Num(150), Text}
MarketCapValues == {Absent, None, Num(-1), Num(0), Num(250), Num(3000)}
DividendYieldValues == {Absent, None, Num(-200), Num(0), Num(20), Num(150)}

FundamentalArgs ==
    [info : {[Complete EXCEPT !.trailingPE = pe, !.marketCap = mc, !.dividendYield = dy] :
                pe \in PeValues, mc \in MarketCapValues, dy \in DividendYieldValues},
     hist : SeqsUpTo(1..MaxClose, MaxHist)]

CallCalculateFundamentalScore ==
    /\ ret = Idle
    /\ IF FundamentalRaises(arg.info, arg.hist)
       THEN ret' = [k |-> "raise"]
       ELSE \E v \in calculate_fundamental_score(arg.info, arg.hist) :
              ret' = IF arg.hist = <<>>
                     THEN [k |-> "default", v |-> v]
                     ELSE [k |-> "value", v |-> v, sub |-> SubScores(arg.info, arg.hist)]
    /\ UNCHANGED <<stock_data, invalid_label, tree, last, arg>>

InitFund == Started /\ arg \in FundamentalArgs /\ ret = Idle
SpecFund == InitFund /\ [][CallCalculateFundamentalScore]_vars

\* aggregate_sentiment on every article list within the bounds
Compounds == {-10000, -7500, -5000, -2500, -1000, -500, 0, 10, 500, 1000, 2500, 5000, 7500, 10000}
SentimentArgs == {NoNews} \cup {News(items) : items \in SeqsUpTo(Compounds, MaxArticles)}

CallAggregateSentiment ==
    /\ ret = Idle
    /\ \E r \in aggregate_sentiment(arg) : ret' = [k |-> "value", label |-> r[1], score |-> r[2]]
    /\ UNCHANGED <<stock_data, invalid_label, tree, last, arg>>

InitSent == Started /\ arg \in SentimentArgs /\ ret = Idle
SpecSent == InitSent /\ [][CallAggregateSentiment]_vars

\* combine_scores on two pairs of two-decimal scores of [0, 10], the second
\* pair not below the first
Scores == (0..Window) \cup {247, 495, 500, 617, 800} \cup ((1000 - Window)..1000)
CombineArgs ==
    {a \in [f1 : Scores, s1 : Scores, f2 : Scores, s2 : Scores] : a.f1 <= a.f2 /\ a.s1 <= a.s2}

CallCombineScores ==
    /\ ret = Idle
    /\ \E o1 \in combine_scores(arg.f1, arg.s1), o2 \in combine_scores(arg.f2, arg.s2) :
         ret' = [k |-> "value", o1 |-> o1, o2 |-> o2]
    /\ UNCHANGED <<stock_data, invalid_label, tree, last, arg>>

InitCombine == Started /\ arg \in CombineArgs /\ ret = Idle
SpecCombine == InitCombine /\ [][CallCombineScores]_vars

\* ------------------------------------------------------------ claims
FetchOutcomes == {"noquery", "notfound", "duplicate", "incomplete", "failed", "added"}
Stored(data, symbol) == \E i \in 1..Len(data) : data[i].symbol = symbol
IsPrefix(a, b) == Len(a) <= Len(b) /\ SubSeq(b, 1, Len(a)) = a
NoArticles(articles) == articles.k = "none" \/ articles.items = <<>>

\* C1: in every reachable state stock_data holds at most one record per symbol.
C1_OneRecordPerSymbol ==
    \A i, j \in 1..Len(stock_data) :
        stock_data[i].symbol = stock_data[j].symbol => i = j

\* a second add of a stored symbol was attempted on a list of two records
C1_Witness ==
    /\ last.outcome = "duplicate"
    /\ Len(stock_data) = 2
    /\ stock_data[1].symbol = last.symbol

\* C2: a fetch_stock_info call that resolves to a symbol already stored sets the
\* message 'Stock already in list' and leaves stock_data exactly as it was.
C2_DuplicateRejected ==
    [][(last'.outcome \in FetchOutcomes /\ Stored(stock_data, last'.symbol))
         => /\ stock_data' = stock_data
            /\ invalid_label' = "Stock already in list"
            /\ last'.outcome = "duplicate"]_vars

\* the rejected symbol is the older of two stored records
C2_Witness ==
    /\ last.outcome = "duplicate"
    /\ invalid_label = "Stock already in list"
    /\ Len(stock_data) = 2
    /\ stock_data[2].symbol = last.symbol

\* C3: a fetched quote that lacks the price, the market cap or the trailing P/E
\* (absent, None or 'N/A') ends the call with the message 'Incomplete stock
\* data': no scoring call, no record, stock_data unchanged, nothing raised.
C3_IncompleteAborts ==
    [][(last'.outcome \in FetchOutcomes /\ last'.missing # {})
         => /\ last'.outcome = "incomplete"
            /\ last'.calls = {}
            /\ invalid_label' = "Incomplete stock data"
            /\ stock_data' = stock_data
            /\ tree' = tree]_vars

\* the market cap alone was missing, with a record already stored
C3_Witness ==
    /\ last.outcome = "incomplete"
    /\ last.missing = {"marketCap"}
    /\ Len(stock_data) >= 1

\* where the record of a symbol stands in stock_data
Position(symbol) == CHOOSE i \in 1..Len(stock_data) : stock_data[i].symbol = symbol

\* C4: the rows update_tree displays are exactly the records of stock_data, in
\* non-increasing order of overall score, records of equal score in the order
\* in which they were inserted.
C4_StableDescendingRanking ==
    /\ Len(tree) = Len(stock_data)
    /\ \A i \in 1..Len(tree) :
         /\ Stored(stock_data, tree[i].symbol)
         /\ tree[i] = Row(stock_data[Position(tree[i].symbol)])
    /\ \A i \in 1..Len(stock_data) : \E j \in 1..Len(tree) : tree[j] = Row(stock_data[i])
    /\ \A i, j \in 1..Len(tree) :
         i < j => /\ tree[i].overall >= tree[j].overall
                  /\ tree[i].overall = tree[j].overall
                       => Position(tree[i].symbol) < Position(tree[j].symbol)

\* two records that differ and have the same overall score are displayed
C4_Witness ==
    /\ Len(tree) = 2
    /\ tree[1].overall = tree[2].overall
    /\ stock_data[1].articles # stock_data[2].articles
    /\ tree[1].symbol = stock_data[1].symbol

\* C5: across every step stock_data before the step is a prefix of stock_data
\* after it: no record is modified, reordered or removed.
C5_StoreOnlyGrows == [][IsPrefix(stock_data, stock_data')]_vars

\* the ranked view shows the second record first while the store keeps the
\* insertion order, and a row has been opened
C5_Witness ==
    /\ Len(stock_data) = 2
    /\ tree[1].symbol = stock_data[2].symbol
    /\ stock_data[1].overall < stock_data[2].overall
    /\ last.outcome = "popup"

\* C6: on a non-empty price history each of the five sub-scores lies in [0, 1]
\* and the returned score lies in [0, 10].
C6_FundamentalsBounded ==
    ret.k = "value" =>
        /\ \A name \in DOMAIN ret.sub : ret.sub[name] \in 0..1000
        /\ ret.v \in 0..1000

\* C7: on a non-empty list aggregate_sentiment returns the score
\* round((avg + 1) * 5, 2), which lies in [0, 10], and the one label whose
\* band holds the unrounded average.
C7_SentimentBuckets ==
    (ret.k = "value" /\ arg.k = "list" /\ arg.items # <<>>) =>
        LET n == Len(arg.items)
            sum == SumSeq(arg.items)
            exact == sum + 10000 * n      \* (avg + 1) * 5 in hundredths, times 20 n
            off == 20 * n * ret.score - exact
        IN  /\ 2 * off <= 20 * n /\ -2 * off <= 20 * n
            /\ ret.score \in 0..1000
            /\ ret.label = "Extremely Positive" <=> sum >= 7500 * n
            /\ ret.label = "Very Positive" <=> (sum >= 5000 * n /\ sum < 7500 * n)
            /\ ret.label = "Positive" <=> (sum >= 2500 * n /\ sum < 5000 * n)
            /\ ret.label = "Slightly Positive" <=> (sum >= 500 * n /\ sum < 2500 * n)
            /\ ret.label = "Neutral" <=> (sum > -500 * n /\ sum < 500 * n)
            /\ ret.label = "Slightly Negative" <=> (sum > -2500 * n /\ sum <= -500 * n)
            /\ ret.label = "Negative" <=> (sum > -5000 * n /\ sum <= -2500 * n)
            /\ ret.label = "Very Negative" <=> (sum > -7500 * n /\ sum <= -5000 * n)
            /\ ret.label = "Extremely Negative" <=> sum <= -7500 * n

\* two different compound values average exactly 0.05
C7_Witness ==
    /\ ret.k = "value" /\ arg.k = "list"
    /\ Len(arg.items) = 2
    /\ arg.items[1] # arg.items[2]
    /\ SumSeq(arg.items) = 1000
    /\ ret.label = "Slightly Positive"
    /\ ret.score = 525

C9_CombineMonotone == ret.k = "value" => ret.o1 <= ret.o2

\* a raise of the fundamentals score that the rounding absorbs
C9_Witness ==
    /\ ret.k = "value"
    /\ arg.f1 < arg.f2
    /\ arg.s1 = arg.s2
    /\ ret.o1 = ret.o2

\* a symbol of SymbolPool in upper case
Upper(symbol) == CASE symbol = "aapl" -> "AAPL" [] OTHER -> symbol

\* C10: stock_data never holds two records whose symbols differ only in
\* letter case: adding such a symbol is rejected as a duplicate.
C10_CaseNormalizedUnique ==
    \A i, j \in 1..Len(stock_data) :
        Upper(stock_data[i].symbol) = Upper(stock_data[j].symbol) => i = j

====
